---------------------------- MODULE Spec2Model ----------------------------
(***************************************************************************)
(* Model of the DSMR P1 telegram adapter (src/src/main.rs): the serial     *)
(* reading loop that assembles telegrams from chunks, the tag lookup, the  *)
(* per-metric parsers and the sequential submission of metrics to the      *)
(* sink.                                                                   *)
(*                                                                         *)
(* Text is a sequence of one-character strings.  A number is held exactly, *)
(* in thousandths (the value 131.0 is 131000); the rounding of f32 is not  *)
(* modelled.                                                               *)
(***************************************************************************)
EXTENDS Integers, Sequences, FiniteSets, TLC

(***************************************************************************)
(* Bounds of the model.                                                    *)
(***************************************************************************)
\* chunks delivered by the serial port in one behaviour of Spec
MaxChunks == 3
\* telegrams delivered in one behaviour of ParseSpec
MaxTelegrams == 2

(***************************************************************************)
(* Text primitives of the standard library, as the code uses them.         *)
(***************************************************************************)
\* pat occurs in s at index i
MatchesAt(s, pat, i) ==
    /\ i + Len(pat) - 1 <= Len(s)
    /\ \A k \in 1..Len(pat) : s[i + k - 1] = pat[k]

\* str::find(pat).is_some() and str::contains(pat)
Contains(s, pat) == \E i \in 1..Len(s) : MatchesAt(s, pat, i)

\* str::starts_with(pat)
StartsWith(s, pat) == MatchesAt(s, pat, 1)

\* str::replace(pat, ""): every non-overlapping occurrence, left to right
RECURSIVE ReplaceFrom(_, _, _)
ReplaceFrom(s, pat, i) ==
    IF i > Len(s) THEN <<>>
    ELSE IF MatchesAt(s, pat, i) THEN ReplaceFrom(s, pat, i + Len(pat))
    ELSE <<s[i]>> \o ReplaceFrom(s, pat, i + 1)

Replace(s, pat) == ReplaceFrom(s, pat, 1)

\* the smallest element of a non-empty set of indices
Min(S) == CHOOSE e \in S : \A f \in S : e <= f

\* the indices of text that hold one of the characters seps, ascending
Separators(text, seps) ==
    SelectSeq([i \in 1..Len(text) |-> i], LAMBDA i : text[i] \in seps)

\* the pieces of text between the separators at the indices at, in order,
\* empty pieces included
Pieces(text, at) ==
    <<>> \o [k \in 1..(Len(at) + 1) |->
                SubSeq(text,
                       IF k = 1 THEN 1 ELSE at[k - 1] + 1,
                       IF k > Len(at) THEN Len(text) ELSE at[k] - 1)]

\* a "\r" at the end of a line belongs to its line ending
StripCR(l) ==
    IF l # <<>> /\ l[Len(l)] = "\r" THEN SubSeq(l, 1, Len(l) - 1) ELSE l

\* str::lines(): split at every "\n" or "\r\n"; a last line without line
\* ending counts when it is not empty
Lines(text) ==
    LET newlines == Separators(text, {"\n"})
        pieces == Pieces(text, newlines)
    IN  <<>> \o [k \in 1..(IF pieces[Len(pieces)] = <<>>
                            THEN Len(pieces) - 1 ELSE Len(pieces)) |->
                    IF k <= Len(newlines) THEN StripCR(pieces[k])
                    ELSE pieces[k]]

\* str::split(|x| x == '(' || x == ')'): the pieces between the separators,
\* empty pieces included
SplitParens(line) == Pieces(line, Separators(line, {"(", ")"}))

\* Iterator::filter(|x| x.len() != 0)
FilterNonEmpty(pieces) == SelectSeq(pieces, LAMBDA x : Len(x) # 0)

\* Iterator::position(|x| x.starts_with(id)) over the lines: the first
\* index, 0 for None
Position(lines, id) ==
    LET hits == {i \in 1..Len(lines) : StartsWith(lines[i], id)}
    IN  IF hits = {} THEN 0 ELSE Min(hits)

(***************************************************************************)
(* str::parse::<f32>(): Sign? ( Digit+ | Digit+ '.' Digit* | Digit* '.'    *)
(* Digit+ ) is a number.  Rust accepts an exponent and inf, infinity and   *)
(* nan as well; the texts of the model hold none of these forms, so every  *)
(* other text is an error here.  Values are exact, in thousandths.         *)
(***************************************************************************)
Digits == <<"0", "1", "2", "3", "4", "5", "6", "7", "8", "9">>

IsDigit(c) == \E d \in 1..Len(Digits) : Digits[d] = c

DigitVal(c) == (CHOOSE d \in 1..Len(Digits) : Digits[d] = c) - 1

RECURSIVE NatVal(_)
NatVal(ds) ==
    IF ds = <<>> THEN 0
    ELSE 10 * NatVal(SubSeq(ds, 1, Len(ds) - 1)) + DigitVal(ds[Len(ds)])

\* the fraction digits as thousandths (digits after the third are dropped)
FracVal(ds) ==
    LET d(k) == IF k <= Len(ds) THEN DigitVal(ds[k]) ELSE 0
    IN  100 * d(1) + 10 * d(2) + d(3)

Unsigned(s) ==
    IF s # <<>> /\ s[1] \in {"+", "-"} THEN Tail(s) ELSE s

IsF32(s) ==
    LET u    == Unsigned(s)
        dots == {i \in 1..Len(u) : u[i] = "."}
    IN  /\ \A i \in 1..Len(u) : IsDigit(u[i]) \/ u[i] = "."
        /\ Cardinality(dots) <= 1
        /\ \E i \in 1..Len(u) : IsDigit(u[i])

F32Val(s) ==
    LET u    == Unsigned(s)
        dots == {i \in 1..Len(u) : u[i] = "."}
        dot  == IF dots = {} THEN Len(u) + 1 ELSE CHOOSE i \in dots : TRUE
        mag  == 1000 * NatVal(SubSeq(u, 1, dot - 1))
                + FracVal(SubSeq(u, dot + 1, Len(u)))
    IN  IF s # <<>> /\ s[1] = "-" THEN 0 - mag ELSE mag

(***************************************************************************)
(* Results: Result<f32, &'static str>, and the panic of expect().          *)
(***************************************************************************)
Ok(v) == [kind |-> "ok", value |-> v, msg |-> ""]

Err(m) == [kind |-> "err", value |-> 0, msg |-> m]

Panic(m) == [kind |-> "panic", value |-> 0, msg |-> m]

NoResult == [kind |-> "none", value |-> 0, msg |-> ""]

\* the result of a tag lookup: Result<Vec<&str>, &'static str>
Found(vs) == [kind |-> "ok", values |-> vs, msg |-> ""]

NotFound(m) == [kind |-> "err", values |-> <<>>, msg |-> m]

(***************************************************************************)
(* The tag identifiers and unit suffixes of the parsers.                   *)
(***************************************************************************)
TagCurrentTariff == <<"0", "-", "0", ":", "9", "6", ".", "1", "4", ".", "0">>

TagWUsage == <<"1", "-", "0", ":", "1", ".", "7", ".", "0">>

TagWUsageT1 == <<"1", "-", "0", ":", "1", ".", "8", ".", "1">>

TagWUsageT2 == <<"1", "-", "0", ":", "1", ".", "8", ".", "2">>

TagWProduction == <<"1", "-", "0", ":", "2", ".", "7", ".", "0">>

TagWProductionT1 == <<"1", "-", "0", ":", "2", ".", "8", ".", "1">>

TagWProductionT2 == <<"1", "-", "0", ":", "2", ".", "8", ".", "2">>

TagGas == <<"0", "-", "1", ":", "2", "4", ".", "2", ".", "1">>

UnitKW == <<"*", "k", "W">>

UnitKWh == <<"*", "k", "W", "h">>

UnitM3 == <<"*", "m", "3">>

(***************************************************************************)
(* get_values_by_id: the first line that starts with id, split at every    *)
(* parenthesis, empty pieces dropped, the first piece (the id) removed.    *)
(***************************************************************************)
get_values_by_id(id, telegram) ==
    LET vector_telegram_lines == Lines(telegram)
        index_of_item == Position(vector_telegram_lines, id)
    IN  IF index_of_item = 0 THEN NotFound("Index not found")
        ELSE LET pieces == FilterNonEmpty(
                               SplitParens(vector_telegram_lines[index_of_item]))
                 values == Tail(pieces)
             IN  IF values # <<>> THEN Found(values)
                 ELSE NotFound("Values not found")

(***************************************************************************)
(* The parsers.  expect() on a failed parse panics; only the gas parser    *)
(* checks the parse.                                                       *)
(***************************************************************************)
\* replace(unit, "").parse().expect(what)
ParseExpect(value, unit, what) ==
    LET stripped == Replace(value, unit)
    IN  IF IsF32(stripped) THEN Ok(F32Val(stripped)) ELSE Panic(what)

parse_w_usage(telegram) ==
    LET values == get_values_by_id(TagWUsage, telegram)
    IN  IF values.kind = "err" THEN Err(values.msg)
        ELSE IF Len(values.values) < 1 THEN Err("Could not read Watt usage")
        ELSE LET a == ParseExpect(values.values[1], UnitKW,
                                  "Parse Watt usage string to f32")
             IN  IF a.kind = "ok" THEN Ok(a.value * 1000) ELSE a

\* the body shared by parse_w_usage_accumulative and
\* parse_w_production_accumulative
ParseAccumulative(tag1, tag2, what, telegram) ==
    LET values_tariff_1 == get_values_by_id(tag1, telegram)
        values_tariff_2 == get_values_by_id(tag2, telegram)
    IN  IF values_tariff_1.kind = "err" THEN Err(values_tariff_1.msg)
        ELSE IF values_tariff_2.kind = "err" THEN Err(values_tariff_2.msg)
        ELSE IF Len(values_tariff_1.values) < 1 THEN Err(what)
        ELSE LET p1 == ParseExpect(values_tariff_1.values[1], UnitKWh, what)
             IN  IF p1.kind # "ok" THEN p1
                 ELSE IF Len(values_tariff_2.values) < 1 THEN Err(what)
                 ELSE LET p2 == ParseExpect(values_tariff_2.values[1],
                                            UnitKWh, what)
                      IN  IF p2.kind # "ok" THEN p2
                          ELSE Ok(p1.value + p2.value)

parse_w_usage_accumulative(telegram) ==
    ParseAccumulative(TagWUsageT1, TagWUsageT2,
                      "Watt usage accumulative", telegram)

parse_w_production_accumulative(telegram) ==
    ParseAccumulative(TagWProductionT1, TagWProductionT2,
                      "Watt production accumulative", telegram)

parse_w_production(telegram) ==
    LET values == get_values_by_id(TagWProduction, telegram)
    IN  IF values.kind = "err" THEN Err(values.msg)
        ELSE IF Len(values.values) < 1 THEN Err("Could not read Watt production")
        ELSE LET p == ParseExpect(values.values[1], UnitKW,
                                  "Parse Watt production string to f32")
             IN  IF p.kind = "ok" THEN Ok(p.value * 1000) ELSE p

parse_current_tariff(telegram) ==
    LET values == get_values_by_id(TagCurrentTariff, telegram)
    IN  IF values.kind = "err" THEN Err(values.msg)
        ELSE IF Len(values.values) < 1 THEN Err("Could not read current tariff")
        ELSE IF IsF32(values.values[1]) THEN Ok(F32Val(values.values[1]))
        ELSE Panic("Parse current tariff string to i8")

parse_gas_usage_accumulative(telegram) ==
    LET values == get_values_by_id(TagGas, telegram)
    IN  IF values.kind = "err" THEN Err(values.msg)
        ELSE IF Len(values.values) < 2
             THEN Err("Could not read gas usage accumulative")
        ELSE LET value == values.values[2]
             IN  IF ~Contains(value, UnitM3)
                 THEN Err("Invalid gas usage detected, not parsing")
                 ELSE IF ~IsF32(Replace(value, UnitM3))
                 THEN Err("Could not parse gas usage accumulative")
                 ELSE Ok(F32Val(Replace(value, UnitM3)))

(***************************************************************************)
(* State of the process.                                                   *)
(***************************************************************************)
VARIABLES
    pc,               \* position of main: "poll", "read", "parse", "post",
                      \* "closed" (the loop was left), "panicked"
    telegram_buffer,  \* the accumulation string of main
    stage,            \* position inside parse_telegram
    results,          \* the parse results parse_telegram holds
    lookup,           \* the tag lookups of the parser that ran last
    response,         \* outcome of the request to the sink, "none" while
                      \* it is in flight
    submitted,        \* history: the requests sent to the sink
    stream,           \* history: the chunks read from the serial port
    emitted           \* history: the telegrams passed to parse_telegram

vars == <<pc, telegram_buffer, stage, results, lookup, response, submitted,
          stream, emitted>>

\* the parsers of parse_telegram, in the order of their calls
BaseStages == {"tariff", "usage", "usage_acc", "production",
               "production_acc", "gas"}

\* the measurement a stage posts
KeyOf(st) ==
    CASE st = "tariff"         -> "currentTariff"
      [] st = "usage"          -> "wattUsage"
      [] st = "usage_acc"      -> "wattUsageAccumulative"
      [] st = "production"     -> "wattProduction"
      [] st = "nett"           -> "wattNett"
      [] st = "production_acc" -> "wattProductionAccumulative"
      [] st = "acc_nett"       -> "wattAccumulativeNett"
      [] st = "gas"            -> "gasUsageAccumulative"

\* the parser a stage of parse_telegram calls
ParseMetric(st, telegram) ==
    CASE st = "tariff"         -> parse_current_tariff(telegram)
      [] st = "usage"          -> parse_w_usage(telegram)
      [] st = "usage_acc"      -> parse_w_usage_accumulative(telegram)
      [] st = "production"     -> parse_w_production(telegram)
      [] st = "production_acc" -> parse_w_production_accumulative(telegram)
      [] st = "gas"            -> parse_gas_usage_accumulative(telegram)

\* the tag lookups that parser performs: `?` returns at the first failure
LookupsOf(st, telegram) ==
    LET one(id) == <<[id |-> id, result |-> get_values_by_id(id, telegram)]>>
        two(a, b) == IF get_values_by_id(a, telegram).kind = "err"
                     THEN one(a) ELSE one(a) \o one(b)
    IN  CASE st = "tariff"         -> one(TagCurrentTariff)
          [] st = "usage"          -> one(TagWUsage)
          [] st = "usage_acc"      -> two(TagWUsageT1, TagWUsageT2)
          [] st = "production"     -> one(TagWProduction)
          [] st = "production_acc" -> two(TagWProductionT1, TagWProductionT2)
          [] st = "gas"            -> one(TagGas)

\* NextStage with the calls of two parsers exchanged
NextStage_exchanged(st, posted) ==
    CASE st = "tariff"         -> "usage_acc"
      [] st = "usage_acc"      -> "usage"
      [] st = "usage"          -> "production"
      [] st = "production"     -> IF posted THEN "nett" ELSE "production_acc"
      [] st = "nett"           -> "production_acc"
      [] st = "production_acc" -> IF posted THEN "acc_nett" ELSE "gas"
      [] st = "acc_nett"       -> "gas"
      [] st = "gas"            -> "done"

\* NextStage with parse_telegram returning at the first Err arm
NextStage_return_on_err(st, posted) ==
    IF ~posted THEN "done"
    ELSE CASE st = "tariff"         -> "usage"
           [] st = "usage"          -> "usage_acc"
           [] st = "usage_acc"      -> "production"
           [] st = "production"     -> "nett"
           [] st = "nett"           -> "production_acc"
           [] st = "production_acc" -> "acc_nett"
           [] st = "acc_nett"       -> "gas"
           [] st = "gas"            -> "done"

\* where parse_telegram goes on after a stage; posted: the stage's match
\* took its Ok arm
NextStage(st, posted) ==
    CASE st = "tariff"         -> "usage"
      [] st = "usage"          -> "usage_acc"
      [] st = "usage_acc"      -> "production"
      [] st = "production"     -> IF posted THEN "nett" ELSE "production_acc"
      [] st = "nett"           -> "production_acc"
      [] st = "production_acc" -> IF posted THEN "acc_nett" ELSE "gas"
      [] st = "acc_nett"       -> "gas"
      [] st = "gas"            -> "done"

\* the operand the nett stages subtract
UsageOf(st) == IF st = "nett" THEN "usage" ELSE "usage_acc"

ProductionOf(st) == IF st = "nett" THEN "production" ELSE "production_acc"

NoResults == [st \in BaseStages |-> NoResult]

\* the number of the telegram being parsed
Current == Len(emitted)

Request(key, value) == [key |-> key, value |-> value, telegram |-> Current]

(***************************************************************************)
(* Init: main before the first poll.                                       *)
(***************************************************************************)
Init ==
    /\ pc = "poll"
    /\ telegram_buffer = <<>>
    /\ stage = "idle"
    /\ results = NoResults
    /\ lookup = <<>>
    /\ response = "none"
    /\ submitted = <<>>
    /\ stream = <<>>
    /\ emitted = <<>>

(***************************************************************************)
(* The event loop of main.                                                 *)
(***************************************************************************)
ReadyFlags == {"readable", "hup", "error"}

\* is_closed: Ready::contains of the union of hup and error
is_closed(state) == {"hup", "error"} \subseteq state

\* poll.poll fails: break
PollFailed ==
    /\ pc = "poll"
    /\ pc' = "closed"
    /\ UNCHANGED <<telegram_buffer, stage, results, lookup, response,
                   submitted, stream, emitted>>

\* one event of the serial token
PollEvent(ready) ==
    /\ pc = "poll"
    /\ pc' = IF is_closed(ready) THEN "closed"
             ELSE IF "readable" \in ready THEN "read"
             ELSE "poll"
    /\ UNCHANGED <<telegram_buffer, stage, results, lookup, response,
                   submitted, stream, emitted>>

\* rx.read returns WouldBlock: back to poll
ReadWouldBlock ==
    /\ pc = "read"
    /\ pc' = "poll"
    /\ UNCHANGED <<telegram_buffer, stage, results, lookup, response,
                   submitted, stream, emitted>>

\* rx.read returns another error: break 'outer
ReadError ==
    /\ pc = "read"
    /\ pc' = "closed"
    /\ UNCHANGED <<telegram_buffer, stage, results, lookup, response,
                   submitted, stream, emitted>>

\* String::from_utf8_lossy: a byte that is no valid UTF-8 becomes U+FFFD
from_utf8_lossy(bytes) ==
    [i \in 1..Len(bytes) |-> IF bytes[i] = "0xFF" THEN "U+FFFD" ELSE bytes[i]]

\* Accumulate without the reset at a start-of-frame character
Accumulate_no_reset(buffer, telegram_chunk) == buffer \o telegram_chunk

\* the accumulation string after the start-of-frame check and the push
Accumulate(buffer, telegram_chunk) ==
    LET includes_sof == Contains(telegram_chunk, <<"/">>)
    IN  (IF includes_sof THEN <<>> ELSE buffer) \o telegram_chunk

\* the end-of-frame check
IncludesEof(telegram_chunk) == Contains(telegram_chunk, <<"!">>)

\* the telegrams the read loop passes to parse_telegram for the chunks from
\* the k-th on, entered with the accumulation string buffer
RECURSIVE Assemble(_, _, _)
Assemble(chunks, k, buffer) ==
    IF k > Len(chunks) THEN {}
    ELSE IF IncludesEof(chunks[k])
         THEN {Accumulate(buffer, chunks[k])} \cup Assemble(chunks, k + 1, <<>>)
         ELSE Assemble(chunks, k + 1, Accumulate(buffer, chunks[k]))

\* ReadChunk with the read also taken while a request is in flight
ReadChunk_during_post(bytes) ==
    /\ pc \in {"read", "post"}
    /\ LET telegram_chunk == from_utf8_lossy(bytes)
           includes_eof == IncludesEof(telegram_chunk)
       IN  /\ telegram_buffer' = Accumulate(telegram_buffer, telegram_chunk)
           /\ stream' = Append(stream, telegram_chunk)
           /\ IF includes_eof
              THEN /\ pc' = "parse"
                   /\ stage' = "tariff"
                   /\ results' = NoResults
                   /\ lookup' = <<>>
                   /\ emitted' = Append(emitted,
                                    [telegram |-> telegram_buffer',
                                     at |-> Len(stream')])
              ELSE UNCHANGED <<pc, stage, results, lookup, emitted>>
    /\ UNCHANGED <<response, submitted>>

\* rx.read returns Ok(count): the chunk is accumulated, and a chunk with the
\* end-of-frame character hands the accumulation to parse_telegram
ReadChunk(bytes) ==
    /\ pc = "read"
    /\ LET telegram_chunk == from_utf8_lossy(bytes)
           includes_eof == IncludesEof(telegram_chunk)
       IN  /\ telegram_buffer' = Accumulate(telegram_buffer, telegram_chunk)
           /\ stream' = Append(stream, telegram_chunk)
           /\ IF includes_eof
              THEN /\ pc' = "parse"
                   /\ stage' = "tariff"
                   /\ results' = NoResults
                   /\ lookup' = <<>>
                   /\ emitted' = Append(emitted,
                                    [telegram |-> telegram_buffer',
                                     at |-> Len(stream')])
              ELSE UNCHANGED <<pc, stage, results, lookup, emitted>>
    /\ UNCHANGED <<response, submitted>>

(***************************************************************************)
(* parse_telegram, one step per parser call and per awaited request.       *)
(***************************************************************************)
\* Goto with the accumulation string emptied at every stage
Goto_clearing(st) ==
    /\ pc' = IF st = "done" THEN "read" ELSE "parse"
    /\ stage' = IF st = "done" THEN "idle" ELSE st
    /\ telegram_buffer' = <<>>

\* Goto with the accumulation string kept when parse_telegram returns
Goto_keeping(st) ==
    /\ pc' = IF st = "done" THEN "read" ELSE "parse"
    /\ stage' = IF st = "done" THEN "idle" ELSE st
    /\ UNCHANGED telegram_buffer

\* go on with stage st; at the end parse_telegram returns to the read loop,
\* which clears the accumulation string
Goto(st) ==
    IF st = "done"
    THEN /\ pc' = "read"
         /\ stage' = "idle"
         /\ telegram_buffer' = <<>>
    ELSE /\ pc' = "parse"
         /\ stage' = st
         /\ UNCHANGED telegram_buffer

\* post_influx_db up to the await of send(): no response yet
Post(key, value) ==
    /\ submitted' = Append(submitted, Request(key, value))
    /\ response' = "none"
    /\ pc' = "post"
    /\ UNCHANGED <<stage, telegram_buffer>>

\* a parser call of parse_telegram and the match on its result
MetricStage(st) ==
    /\ pc = "parse"
    /\ stage = st
    /\ LET r == ParseMetric(st, telegram_buffer)
       IN  /\ results' = [results EXCEPT ![st] = r]
           /\ lookup' = LookupsOf(st, telegram_buffer)
           /\ CASE r.kind = "ok"    -> Post(KeyOf(st), r.value)
                [] r.kind = "err"   -> Goto(NextStage(st, FALSE))
                                       /\ UNCHANGED <<submitted, response>>
                [] r.kind = "panic" -> /\ pc' = "panicked"
                                       /\ UNCHANGED <<stage, telegram_buffer,
                                                      submitted, response>>
    /\ UNCHANGED <<stream, emitted>>

\* NettStage with a failed usage result taken as 0
NettStage_default(st) ==
    /\ pc = "parse"
    /\ stage = st
    /\ Post(KeyOf(st),
            results[ProductionOf(st)].value - results[UsageOf(st)].value)
    /\ UNCHANGED <<results, lookup, stream, emitted>>

\* the match on the usage result inside the Ok arm of a production result
NettStage(st) ==
    /\ pc = "parse"
    /\ stage = st
    /\ IF results[UsageOf(st)].kind = "ok"
       THEN Post(KeyOf(st),
                 results[ProductionOf(st)].value - results[UsageOf(st)].value)
       ELSE Goto(NextStage(st, FALSE)) /\ UNCHANGED <<submitted, response>>
    /\ UNCHANGED <<results, lookup, stream, emitted>>

\* send() completes: 204, another status, or a transport error; each is at
\* most printed
Outcomes == {"204", "error_status", "request_error"}

\* PostDone with parse_telegram left when the request failed
PostDone_return_on_failure(outcome) ==
    /\ pc = "post"
    /\ response' = outcome
    /\ Goto(IF outcome = "204" THEN NextStage(stage, TRUE) ELSE "done")
    /\ UNCHANGED <<results, lookup, submitted, stream, emitted>>

PostDone(outcome) ==
    /\ pc = "post"
    /\ response' = outcome
    /\ Goto(NextStage(stage, TRUE))
    /\ UNCHANGED <<results, lookup, submitted, stream, emitted>>

(***************************************************************************)
(* The chunks the serial port delivers in Spec: every text of one or two   *)
(* characters over the two frame markers and a filler, a byte that is no   *)
(* valid UTF-8, and three lines of a telegram.                             *)
(***************************************************************************)
CRLF == <<"\r", "\n">>

Group(v) == <<"(">> \o v \o <<")">>

FrameAlphabet == {"/", "!", "x"}

FrameChunks ==
    {<<a>> : a \in FrameAlphabet} \cup
    {<<a, b>> : a \in FrameAlphabet, b \in FrameAlphabet}

LineChunks ==
    { TagCurrentTariff \o Group(<<"2">>) \o CRLF,
      TagWUsage \o Group(<<"1", ".", "5">> \o UnitKW) \o CRLF,
      TagWProduction \o Group(<<"2">> \o UnitKW) \o CRLF }

Chunks == FrameChunks \cup LineChunks \cup {<<"0xFF">>}

(***************************************************************************)
(* The telegrams of ParseSpec, in the layout of the telegram quoted in     *)
(* main: a header, the eight tag lines the parsers look up (each present   *)
(* or absent, well-formed or not), two lines of other tags, the footer.    *)
(***************************************************************************)
TagKeys == {"usage_t1", "usage_t2", "production_t1", "production_t2",
            "tariff", "usage", "production", "gas"}

LineOrder == <<"usage_t1", "usage_t2", "production_t1", "production_t2",
               "tariff", "usage", "production", "gas">>

TagOf(k) ==
    CASE k = "usage_t1"      -> TagWUsageT1
      [] k = "usage_t2"      -> TagWUsageT2
      [] k = "production_t1" -> TagWProductionT1
      [] k = "production_t2" -> TagWProductionT2
      [] k = "tariff"        -> TagCurrentTariff
      [] k = "usage"         -> TagWUsage
      [] k = "production"    -> TagWProduction
      [] k = "gas"           -> TagGas

\* the unit the parser of a tag strips
UnitOf(k) ==
    CASE k \in {"usage", "production"} -> UnitKW
      [] k = "gas"                     -> UnitM3
      [] k = "tariff"                  -> <<>>
      [] OTHER                         -> UnitKWh

\* the digits of the well-formed value
NumberOf(k) ==
    CASE k = "usage_t1"      -> <<"0", "0", "7", "3", "9", "2", ".", "1", "3", "2">>
      [] k = "usage_t2"      -> <<"0", "0", "7", "1", "3", "9", ".", "8", "0", "0">>
      [] k = "production_t1" -> <<"0", "0", "1", "7", "9", "5", ".", "2", "2", "6">>
      [] k = "production_t2" -> <<"0", "0", "4", "4", "4", "6", ".", "2", "7", "5">>
      [] k = "tariff"        -> <<"0", "0", "0", "2">>
      [] k = "usage"         -> <<"0", "0", ".", "1", "3", "1">>
      [] k = "production"    -> <<"0", "0", ".", "2", "5", "0">>
      [] k = "gas"           -> <<"0", "7", "0", "2", "5", ".", "5", "1", "2">>

\* the value groups before the one the parser reads: the gas timestamp
Timestamp == <<"2", "1", "0", "2", "0", "5", "1", "3", "0", "0", "0", "0", "W">>

LeadOf(k) == IF k = "gas" THEN Group(Timestamp) ELSE <<>>

GoodValue(k) == NumberOf(k) \o UnitOf(k)

GoodBody(k) == LeadOf(k) \o Group(GoodValue(k))

\* a unit the parser of the tag does not expect
OtherUnit(k) == IF UnitOf(k) = UnitKW THEN UnitKWh ELSE UnitKW

\* values that deviate from the well-formed one
BadValues(k) ==
    { NumberOf(k) \o OtherUnit(k),           \* another unit
      <<"x">> \o UnitOf(k),                  \* no number
      <<>> }                                 \* an empty group
    \cup (IF UnitOf(k) = <<>> THEN {}
          ELSE { NumberOf(k),                \* no unit
                 UnitOf(k) \o NumberOf(k) }) \* the unit in front

\* what follows the tag on a line that deviates from the well-formed one
BadBodies(k) ==
    {LeadOf(k) \o Group(v) : v \in BadValues(k)}
    \cup { <<>>,                             \* no value group
           Group(<<>>) \o GoodBody(k),       \* an empty group in front
           Group(GoodValue(k)),              \* the value as the only group
           LeadOf(k) \o <<"x">> \o Group(GoodValue(k)) }  \* text in between

Present(body) == [present |-> TRUE, body |-> body]

Absent == [present |-> FALSE, body |-> <<>>]

Header ==
    <<"/", "K", "F", "M", "5">> \o CRLF \o CRLF
    \o <<"1", "-", "3", ":", "0", ".", "2", ".", "8">> \o Group(<<"4", "2">>)
    \o CRLF

\* lines of tags no parser looks up
OtherLines ==
    <<"1", "-", "0", ":", "2", "1", ".", "7", ".", "0">>
    \o Group(<<"0", "0", ".", "1", "2", "3">> \o UnitKW) \o CRLF
    \o <<"0", "-", "1", ":", "2", "4", ".", "1", ".", "0">>
    \o Group(<<"0", "0", "3">>) \o CRLF

Footer == <<"!", "8", "2", "3", "4">> \o CRLF

RECURSIVE TagLines(_, _)
TagLines(choice, i) ==
    IF i > Len(LineOrder) THEN <<>>
    ELSE LET k == LineOrder[i]
         IN  (IF choice[k].present THEN TagOf(k) \o choice[k].body \o CRLF
              ELSE <<>>)
             \o TagLines(choice, i + 1)

\* extra: lines put in front of the tag lines
Telegram(choice, extra) ==
    Header \o extra \o OtherLines \o TagLines(choice, 1) \o Footer

AllGood == [k \in TagKeys |-> Present(GoodBody(k))]

\* every subset of the tag lines absent, the others well-formed
AbsenceChoices ==
    {[k \in TagKeys |-> IF k \in A THEN Absent ELSE Present(GoodBody(k))] :
        A \in SUBSET TagKeys}

\* one tag line deviating, the others well-formed
DeviationChoices ==
    UNION {{[AllGood EXCEPT ![k] = Present(b)] : b \in BadBodies(k)} :
              k \in TagKeys}

\* lines of a tag in front of the well-formed line of that tag: one of the
\* same tag, one of a longer tag that starts with it, one without value
ShadowLines ==
    { TagCurrentTariff \o Group(<<"0", "0", "0", "1">>) \o CRLF,
      TagCurrentTariff \o <<"1">> \o Group(<<"0", "0", "0", "7">>) \o CRLF,
      TagWUsage \o Group(<<>>) \o CRLF }

Telegrams ==
    {Telegram(c, <<>>) : c \in AbsenceChoices \cup DeviationChoices}
    \cup {Telegram(AllGood, x) : x \in ShadowLines}

\* the telegrams that follow the first one
NextTelegrams ==
    { Telegram(AllGood, <<>>),
      Telegram([AllGood EXCEPT !["usage"] = Absent,
                               !["usage_t1"] = Absent], <<>>),
      Telegram([k \in TagKeys |-> Absent], <<>>) }

(***************************************************************************)
(* The specifications.                                                     *)
(***************************************************************************)
Events == (SUBSET ReadyFlags) \ {{}}

ParseSteps ==
    \/ \E st \in BaseStages : MetricStage(st)
    \/ \E st \in {"nett", "acc_nett"} : NettStage(st)
    \/ \E outcome \in Outcomes : PostDone(outcome)

\* the process, fed chunks of any shape
Next ==
    \/ PollFailed
    \/ \E ready \in Events : PollEvent(ready)
    \/ ReadWouldBlock
    \/ ReadError
    \/ \E bytes \in Chunks : Len(stream) < MaxChunks /\ ReadChunk(bytes)
    \/ ParseSteps

Spec == Init /\ [][Next]_vars

\* the process, fed one whole telegram per chunk
ParseNext ==
    \/ PollFailed
    \/ \E ready \in Events : PollEvent(ready)
    \/ ReadWouldBlock
    \/ ReadError
    \/ \E bytes \in (IF stream = <<>> THEN Telegrams ELSE NextTelegrams) :
          Len(stream) < MaxTelegrams /\ ReadChunk(bytes)
    \/ ParseSteps

ParseSpec == Init /\ [][ParseNext]_vars

(***************************************************************************)
(* The byte stream behind the chunks, for the properties of the assembler. *)
(***************************************************************************)
\* texts split in every way by ChunkBoundariesIrrelevant
MaxSplitLen == 5

\* the concatenation of the chunks i..j
RECURSIVE Concat(_, _, _)
Concat(chunks, i, j) ==
    IF i > j THEN <<>> ELSE chunks[i] \o Concat(chunks, i + 1, j)

\* the whole text read so far
Text == Concat(stream, 1, Len(stream))

\* the index in Text of the last character of chunk c
EndPos(c) == Len(Concat(stream, 1, c))

\* the chunk that holds the character of Text at index i
ChunkAt(i) == Min({c \in 1..Len(stream) : EndPos(c) >= i})

\* the k-th smallest element of a set of indices
Nth(S, k) == CHOOSE b \in S : Cardinality({c \in S : c < b}) = k - 1

\* the chunks of text cut after the indices in cuts
CutAt(text, cuts) ==
    [k \in 1..(Cardinality(cuts) + 1) |->
        SubSeq(text,
               IF k = 1 THEN 1 ELSE Nth(cuts, k - 1) + 1,
               IF k > Cardinality(cuts) THEN Len(text) ELSE Nth(cuts, k))]

\* every way to split text into non-empty chunks
Partitions(text) ==
    {CutAt(text, cuts) : cuts \in SUBSET (1..(Len(text) - 1))}

\* the telegrams passed to parse_telegram so far
EmittedTelegrams == {emitted[n].telegram : n \in 1..Len(emitted)}

\* i..j is a frame of Text: a start marker, the first end marker after it,
\* no other start marker in between
IsFrame(i, j) ==
    /\ i < j
    /\ Text[i] = "/"
    /\ Text[j] = "!"
    /\ \A k \in (i + 1)..(j - 1) : Text[k] \notin {"/", "!"}

(***************************************************************************)
(* C1: for every frame of the chunks read (a start marker followed by an   *)
(* end marker with no start marker in between) exactly one telegram is     *)
(* passed to the parser while the chunks of the frame are read, and it is  *)
(* the concatenation of the chunks from the one with the start marker      *)
(* through the one with the end marker.                                    *)
(***************************************************************************)
C1_OneTelegramPerFrame ==
    \A i \in 1..Len(Text), j \in 1..Len(Text) :
        IsFrame(i, j) =>
            LET during == {n \in 1..Len(emitted) :
                              emitted[n].at \in ChunkAt(i)..ChunkAt(j)}
            IN  /\ Cardinality(during) = 1
                /\ \A n \in during :
                      emitted[n].telegram =
                          Concat(stream, ChunkAt(i), ChunkAt(j))

(***************************************************************************)
(* C2: every split of the text read so far into non-empty chunks makes     *)
(* the assembler pass the same set of telegrams to the parser as the       *)
(* chunks that were read.                                                  *)
(***************************************************************************)
C2_ChunkBoundariesIrrelevant ==
    Len(Text) <= MaxSplitLen =>
        \A chunks \in Partitions(Text) :
            Assemble(chunks, 1, <<>>) = EmittedTelegrams

(***************************************************************************)
(* C3: no telegram passed to the parser holds a character of the stream    *)
(* that lies before the last start marker in front of the telegram's end   *)
(* marker.                                                                 *)
(***************************************************************************)
C3_NothingBeforeStartMarker ==
    \A n \in 1..Len(emitted) :
        LET last == EndPos(emitted[n].at)
            first == last - Len(emitted[n].telegram) + 1
            marker == Min({i \in first..last : Text[i] = "!"})
            starts == {i \in 1..(marker - 1) : Text[i] = "/"}
        IN  \A i \in starts : first >= i

(***************************************************************************)
(* What the sink was sent, per telegram.                                   *)
(***************************************************************************)
\* the indices in submitted of the requests of telegram n
RequestsOf(n) == {i \in 1..Len(submitted) : submitted[i].telegram = n}

\* the keys submitted for telegram n
KeysOf(n) == {submitted[i].key : i \in RequestsOf(n)}

\* parse_telegram has returned for telegram n
Parsed(n) ==
    /\ n \in 1..Len(emitted)
    /\ n < Current \/ pc \in {"poll", "read", "closed"}

\* the text of the telegram being parsed, or parsed last
CurrentTelegram == emitted[Current].telegram

(***************************************************************************)
(* C4: a metric that fails to parse, a malformed number included, stops    *)
(* neither the later metrics of the telegram nor the loop: the process     *)
(* never aborts, and once a telegram is parsed every metric whose own      *)
(* parser succeeds on it has been submitted.                               *)
(***************************************************************************)
C4_FailureIsolation ==
    /\ pc # "panicked"
    /\ \A n \in 1..Len(emitted) :
          Parsed(n) =>
              \A st \in BaseStages :
                  ParseMetric(st, emitted[n].telegram).kind = "ok"
                      => KeyOf(st) \in KeysOf(n)

(***************************************************************************)
(* C5: the keys submitted for a telegram follow the fixed order, each at   *)
(* most once, and every base metric extracted successfully is among them.  *)
(***************************************************************************)
FixedOrder ==
    <<"currentTariff", "wattUsage", "wattUsageAccumulative", "wattProduction",
      "wattNett", "wattProductionAccumulative", "wattAccumulativeNett",
      "gasUsageAccumulative">>

RankOf(key) == CHOOSE r \in 1..Len(FixedOrder) : FixedOrder[r] = key

C5_OutputOrdering ==
    /\ \A i \in 1..Len(submitted), j \in 1..Len(submitted) :
          i < j =>
              /\ submitted[i].telegram <= submitted[j].telegram
              /\ submitted[i].telegram = submitted[j].telegram
                    => RankOf(submitted[i].key) < RankOf(submitted[j].key)
    /\ \A st \in BaseStages :
          results[st].kind = "ok" => KeyOf(st) \in KeysOf(Current)

\* a telegram was parsed to the end and all eight keys were submitted
C5_Witness ==
    /\ Parsed(Current)
    /\ [i \in 1..Len(submitted) |-> submitted[i].key] = FixedOrder

(***************************************************************************)
(* C6: wattNett (wattAccumulativeNett) is submitted for a telegram exactly *)
(* when its usage and its production (cumulative usage and production)     *)
(* were both extracted from that telegram, with the value production       *)
(* minus usage of that telegram.                                           *)
(***************************************************************************)
C6_DerivedMetrics ==
    Current >= 1 =>
        \A st \in {"nett", "acc_nett"} :
            LET usage == results[UsageOf(st)]
                production == results[ProductionOf(st)]
                requests == {i \in RequestsOf(Current) :
                                submitted[i].key = KeyOf(st)}
            IN  /\ requests # {} =>
                      /\ usage.kind = "ok"
                      /\ production.kind = "ok"
                      /\ usage = ParseMetric(UsageOf(st), CurrentTelegram)
                      /\ production =
                            ParseMetric(ProductionOf(st), CurrentTelegram)
                      /\ \A i \in requests :
                            submitted[i].value = production.value - usage.value
                /\ usage.kind = "ok" /\ production.kind = "ok" =>
                      \/ requests # {}
                      \/ stage = ProductionOf(st)
                      \/ stage = st /\ pc = "parse"

\* the first telegram had usage and production, the second one has no usage
\* line: a wattNett for the first and none for the second
C6_Witness ==
    /\ Current = 2
    /\ Parsed(2)
    /\ \E i \in RequestsOf(1) :
          submitted[i].key = "wattNett" /\ submitted[i].value = 119000
    /\ "wattProduction" \in KeysOf(2)
    /\ "wattNett" \notin KeysOf(2)
    /\ results["usage"].kind = "err"

(***************************************************************************)
(* C7: in a telegram whose tag lines are well-formed or absent, exactly    *)
(* the metrics whose tag lines are all present are submitted; a missing    *)
(* gas line fails the gas parser with the tag-not-found error and costs no *)
(* other metric.                                                           *)
(***************************************************************************)
\* the tag lines a key needs
TagsFor(key) ==
    CASE key = "currentTariff"              -> {"tariff"}
      [] key = "wattUsage"                  -> {"usage"}
      [] key = "wattUsageAccumulative"      -> {"usage_t1", "usage_t2"}
      [] key = "wattProduction"             -> {"production"}
      [] key = "wattNett"                   -> {"usage", "production"}
      [] key = "wattProductionAccumulative" -> {"production_t1", "production_t2"}
      [] key = "wattAccumulativeNett"       -> {"usage_t1", "usage_t2",
                                                "production_t1", "production_t2"}
      [] key = "gasUsageAccumulative"       -> {"gas"}

AllKeys == {FixedOrder[r] : r \in 1..Len(FixedOrder)}

\* the tag lines missing from a text
AbsentTags(telegram) ==
    LET lines == Lines(telegram)
    IN  {k \in TagKeys : \A i \in 1..Len(lines) : ~StartsWith(lines[i], TagOf(k))}

\* the telegram with exactly the tag lines in A missing, the others
\* well-formed
WithAbsent(A) ==
    Telegram([k \in TagKeys |-> IF k \in A THEN Absent
                                ELSE Present(GoodBody(k))], <<>>)

C7_TagAbsenceIsolated ==
    Current >= 1 =>
        LET A == AbsentTags(CurrentTelegram)
        IN  CurrentTelegram = WithAbsent(A) =>
                /\ pc # "panicked"
                /\ Parsed(Current) =>
                      KeysOf(Current) =
                          {key \in AllKeys : TagsFor(key) \cap A = {}}
                /\ results["gas"].kind # "none" /\ "gas" \in A
                      => results["gas"] = Err("Index not found")

\* a telegram without gas line, the other lines well-formed, was parsed:
\* tag-not-found for gas, the seven other keys submitted
C7_Witness ==
    /\ Current = 1
    /\ Parsed(1)
    /\ CurrentTelegram = WithAbsent({"gas"})
    /\ results["gas"] = Err("Index not found")
    /\ KeysOf(1) = AllKeys \ {"gasUsageAccumulative"}

(***************************************************************************)
(* C8: a unit-bearing metric is extracted only from value groups that end  *)
(* with the unit expected for the tag.                                     *)
(***************************************************************************)
EndsWith(s, suffix) == MatchesAt(s, suffix, Len(s) - Len(suffix) + 1)

\* the value groups a parser reads: tag line and index in the lookup result
GroupsRead(st) ==
    CASE st = "usage"          -> {<<"usage", 1>>}
      [] st = "production"     -> {<<"production", 1>>}
      [] st = "usage_acc"      -> {<<"usage_t1", 1>>, <<"usage_t2", 1>>}
      [] st = "production_acc" -> {<<"production_t1", 1>>, <<"production_t2", 1>>}
      [] st = "gas"            -> {<<"gas", 2>>}
      [] st = "tariff"         -> {<<"tariff", 1>>}

C8_UnitValidation ==
    Current >= 1 =>
        \A st \in BaseStages \ {"tariff"} :
            results[st].kind = "ok" =>
                \A g \in GroupsRead(st) :
                    EndsWith(get_values_by_id(TagOf(g[1]),
                                              CurrentTelegram).values[g[2]],
                             UnitOf(g[1]))

(***************************************************************************)
(* C9: a tag lookup fails with the tag-not-found error exactly when no     *)
(* line starts with the tag, fails with the no-values error exactly when   *)
(* the first such line has no value group, and returns a non-empty list    *)
(* otherwise.                                                              *)
(***************************************************************************)
\* the line has a value group: a "(" and a ")" after it with no
\* parenthesis in between
HasValueGroup(line) ==
    \E i \in 1..Len(line), j \in 1..Len(line) :
        /\ i < j
        /\ line[i] = "("
        /\ line[j] = ")"
        /\ \A k \in (i + 1)..(j - 1) : line[k] \notin {"(", ")"}

C9_TagLookupOutcome ==
    \A l \in 1..Len(lookup) :
        LET id == lookup[l].id
            result == lookup[l].result
            lines == Lines(CurrentTelegram)
            hits == {i \in 1..Len(lines) : StartsWith(lines[i], id)}
        IN  /\ result = NotFound("Index not found") <=> hits = {}
            /\ result = NotFound("Values not found") <=>
                  hits # {} /\ ~HasValueGroup(lines[Min(hits)])
            /\ result.kind = "ok" => result.values # <<>>

(***************************************************************************)
(* The value groups written on a line: the texts between a "(" and the     *)
(* next ")" with no parenthesis in between, from left to right.            *)
(***************************************************************************)
\* the index of the first parenthesis after index i, Len(line) + 1 for none
GroupClose(line, i) ==
    Min({j \in (i + 1)..Len(line) : line[j] \in {"(", ")"}}
        \cup {Len(line) + 1})

GroupOpens(line) ==
    {i \in 1..Len(line) :
        /\ line[i] = "("
        /\ GroupClose(line, i) <= Len(line)
        /\ line[GroupClose(line, i)] = ")"}

LineGroups(line) ==
    <<>> \o [k \in 1..Cardinality(GroupOpens(line)) |->
                SubSeq(line, Nth(GroupOpens(line), k) + 1,
                       GroupClose(line, Nth(GroupOpens(line), k)) - 1)]

\* the value groups of the first line of the telegram that starts with id
GroupsOfTag(id, telegram) ==
    LET lines == Lines(telegram)
        at == Position(lines, id)
    IN  IF at = 0 THEN <<>> ELSE LineGroups(lines[at])

(***************************************************************************)
(* C10: the gas parser uses value group 1 of the 0-1:24.2.1 line (group 0  *)
(* is the timestamp).  The value is submitted only when that group exists, *)
(* holds *m3 and is a number once *m3 is removed; when the group exists    *)
(* without *m3 the parser fails as invalid gas usage; the well-formed line *)
(* yields 7025.512; no gas failure aborts the process; and the value is    *)
(* submitted exactly when the parser succeeded.                            *)
(***************************************************************************)
C10_GasUsage ==
    results["gas"].kind # "none" =>
        LET groups == GroupsOfTag(TagGas, CurrentTelegram)
            exists == Len(groups) >= 2
            requests == {i \in RequestsOf(Current) :
                            submitted[i].key = "gasUsageAccumulative"}
        IN  /\ results["gas"].kind \in {"ok", "err"}
            /\ results["gas"].kind = "ok" =>
                  /\ exists
                  /\ Contains(groups[2], UnitM3)
                  /\ IsF32(Replace(groups[2], UnitM3))
                  /\ results["gas"].value = F32Val(Replace(groups[2], UnitM3))
            /\ exists /\ ~Contains(groups[2], UnitM3) =>
                  results["gas"] = Err("Invalid gas usage detected, not parsing")
            /\ groups = <<Timestamp, GoodValue("gas")>> =>
                  results["gas"] = Ok(7025512)
            /\ results["gas"].kind = "err" => pc \in {"poll", "read", "closed"}
            /\ requests # {} <=> results["gas"].kind = "ok"
            /\ \A i \in requests : submitted[i].value = results["gas"].value

(***************************************************************************)
(* The requests of a telegram when no outcome of a request matters:        *)
(* parse_telegram walked from stage st on with the parsers alone.          *)
(***************************************************************************)
RECURSIVE RequestsFrom(_, _)
RequestsFrom(st, telegram) ==
    IF st = "done" THEN <<>>
    ELSE IF st \in BaseStages
    THEN LET r == ParseMetric(st, telegram)
         IN  CASE r.kind = "ok" ->
                    <<[key |-> KeyOf(st), value |-> r.value]>>
                        \o RequestsFrom(NextStage(st, TRUE), telegram)
               [] r.kind = "err" ->
                    RequestsFrom(NextStage(st, FALSE), telegram)
               [] r.kind = "panic" -> <<>>
    ELSE LET usage == ParseMetric(UsageOf(st), telegram)
             production == ParseMetric(ProductionOf(st), telegram)
         IN  IF usage.kind = "ok"
             THEN <<[key |-> KeyOf(st),
                     value |-> production.value - usage.value]>>
                      \o RequestsFrom(NextStage(st, TRUE), telegram)
             ELSE RequestsFrom(NextStage(st, FALSE), telegram)

\* the keys and values submitted for telegram n, in order
SubmittedFor(n) ==
    LET own == SelectSeq(submitted, LAMBDA r : r.telegram = n)
    IN  [i \in 1..Len(own) |-> [key |-> own[i].key, value |-> own[i].value]]

IsPrefix(a, b) == Len(a) <= Len(b) /\ a = SubSeq(b, 1, Len(a))

(***************************************************************************)
(* C11: whatever the outcomes of the requests are (204, another status, a  *)
(* transport error), the keys and values submitted for a telegram are      *)
(* those submitted when every request succeeds: so far when a request has  *)
(* been sent, all of them when parse_telegram has returned, and nothing is *)
(* submitted in between; and the completion of a request, whatever its     *)
(* outcome, leads back into parse_telegram or, after the last metric, to   *)
(* the read of the next chunk.                                             *)
(***************************************************************************)
C11_SinkFailuresIgnored ==
    /\ [](Current >= 1 /\ pc \in {"post", "read"} =>
            LET expected == RequestsFrom("tariff", CurrentTelegram)
            IN  /\ IsPrefix(SubmittedFor(Current), expected)
                /\ pc = "read" => SubmittedFor(Current) = expected)
    /\ [][/\ submitted' # submitted => pc' = "post"
          /\ pc = "post" =>
                /\ response' \in Outcomes
                /\ pc' = IF NextStage(stage, TRUE) = "done" THEN "read"
                         ELSE "parse"
                /\ submitted' = submitted]_vars

\* the last request of the first telegram met a transport error, all eight
\* metrics of that telegram were submitted, and the next telegram was read
C11_Witness ==
    /\ Current = 2
    /\ pc = "parse"
    /\ stage = "tariff"
    /\ response = "request_error"
    /\ Len(SubmittedFor(1)) = 8

(***************************************************************************)
(* C12: a step that an event with hang-up or error readiness (either one)  *)
(* can cause leaves the loop, and so does a read error other than          *)
(* WouldBlock; once the loop is left no chunk is read, no telegram is      *)
(* passed to the parser and nothing is submitted, so what the accumulation *)
(* string holds is never emitted.                                          *)
(***************************************************************************)
C12_ClosureTerminatesLoop ==
    [][/\ \A ready \in Events :
             PollEvent(ready) /\ ready \cap {"hup", "error"} # {}
                 => pc' = "closed"
       /\ ReadError => pc' = "closed"
       /\ pc = "closed" =>
             /\ pc' = "closed"
             /\ stream' = stream
             /\ emitted' = emitted
             /\ submitted' = submitted]_vars

(***************************************************************************)
(* C13: while parse_telegram runs, a request in flight included, the       *)
(* accumulation string is the telegram being parsed and no chunk is read;  *)
(* a chunk is read only when the chunk before it is processed to the end;  *)
(* and the requests of a telegram all precede those of the next telegram.  *)
(***************************************************************************)
C13_RunToCompletion ==
    /\ [](/\ pc \in {"parse", "post"} =>
                /\ Current >= 1
                /\ telegram_buffer = CurrentTelegram
                /\ emitted[Current].at = Len(stream)
          /\ \A i \in 1..Len(submitted), j \in 1..Len(submitted) :
                i < j => submitted[i].telegram <= submitted[j].telegram)
    /\ [][/\ stream' # stream =>
                /\ pc = "read"
                /\ stage = "idle"
                /\ Len(stream') = Len(stream) + 1
          /\ pc \in {"parse", "post"} =>
                /\ stream' = stream
                /\ emitted' = emitted
                /\ \/ telegram_buffer' = telegram_buffer
                   \/ pc' = "read" /\ telegram_buffer' = <<>>
          /\ submitted' # submitted =>
                /\ pc \in {"parse"}
                /\ \E r \in {submitted'[Len(submitted')]} :
                      /\ submitted' = Append(submitted, r)
                      /\ r.telegram = Current]_vars

\* a request of the second telegram is in flight, after requests of the
\* first telegram
C13_Witness ==
    /\ Current = 2
    /\ pc = "post"
    /\ telegram_buffer = CurrentTelegram
    /\ \E i \in 1..Len(submitted) : submitted[i].telegram = 1
    /\ submitted[Len(submitted)].telegram = 2

C15_ChunkStep ==
    /\ [](/\ pc \in {"read", "poll", "closed"}
          /\ stream # <<>>
          /\ "!" \in {stream[Len(stream)][i] :
                         i \in 1..Len(stream[Len(stream)])}
          => telegram_buffer = <<>>)
    /\ [][/\ emitted' # emitted => stream' # stream
          /\ stream' # stream =>
                LET chunk == stream'[Len(stream')]
                    marks == {chunk[i] : i \in 1..Len(chunk)}
                    kept == IF "/" \in marks THEN <<>> ELSE telegram_buffer
                IN  /\ stream' = Append(stream, chunk)
                    /\ telegram_buffer' = kept \o chunk
                    /\ IF "!" \in marks
                       THEN /\ Len(emitted') = Len(emitted) + 1
                            /\ SubSeq(emitted', 1, Len(emitted)) = emitted
                            /\ emitted'[Len(emitted')].telegram = kept \o chunk
                       ELSE emitted' = emitted]_vars

\* text without markers was accumulated, a chunk with "/" replaced it, and
\* a chunk with "!" completed the telegram; the string is empty again
C15_Witness ==
    /\ Len(stream) = 3
    /\ stream[1] = <<"x">>
    /\ stream[2] = <<"/", "x">>
    /\ stream[3] = <<"x", "!">>
    /\ Len(emitted) = 1
    /\ emitted[1].telegram = <<"/", "x", "x", "!">>
    /\ pc = "read"
    /\ telegram_buffer = <<>>

(***************************************************************************)
(* C16: every telegram passed to the parser holds a "/" and, after it, a   *)
(* "!"; and as many telegrams were passed as the text read so far holds    *)
(* frames.                                                                 *)
(***************************************************************************)
C16_CompleteFrames ==
    /\ \A n \in 1..Len(emitted) :
          LET telegram == emitted[n].telegram
          IN  \E i \in 1..Len(telegram), j \in 1..Len(telegram) :
                  i < j /\ telegram[i] = "/" /\ telegram[j] = "!"
    /\ Len(emitted) =
          Cardinality({f \in (1..Len(Text)) \X (1..Len(Text)) :
                          IsFrame(f[1], f[2])})

(***************************************************************************)
(* C17: the values a tag lookup returns are the value groups written on    *)
(* the selected line, in order and with their positions: entry i is the    *)
(* text of the (i+1)-th pair of parentheses.                               *)
(***************************************************************************)
C17_GroupsPreserved ==
    \A l \in 1..Len(lookup) :
        lookup[l].result.kind = "ok" =>
            lookup[l].result.values = GroupsOfTag(lookup[l].id,
                                                  CurrentTelegram)

(***************************************************************************)
(* The chunks the accumulation string is made of.                          *)
(***************************************************************************)
HasMark(chunk, mark) == \E i \in 1..Len(chunk) : chunk[i] = mark

\* the first chunk appended since the last reset before chunk c was
\* appended: the last chunk up to c that holds "/" or follows a chunk
\* with "!", or the first chunk of all
StartOf(c) ==
    CHOOSE k \in 1..c :
        /\ k = 1 \/ HasMark(stream[k], "/") \/ HasMark(stream[k - 1], "!")
        /\ \A m \in (k + 1)..c :
              ~HasMark(stream[m], "/") /\ ~HasMark(stream[m - 1], "!")

(***************************************************************************)
(* C18: once a chunk is processed to the end the accumulation string holds *)
(* no "!", it is made of the chunks appended since the last reset, and a   *)
(* "/" in it lies in the first of them; every telegram passed to the       *)
(* parser is made of such chunks too, with "!" only in its last chunk and  *)
(* "/" only in its first chunk.                                            *)
(***************************************************************************)
C18_AccumulatorInvariant ==
    /\ pc \in {"read", "poll", "closed"} =>
          /\ ~HasMark(telegram_buffer, "!")
          /\ stream = <<>> => telegram_buffer = <<>>
          /\ stream # <<>> =>
                LET last == Len(stream)
                    first == StartOf(last)
                IN  /\ telegram_buffer =
                          IF HasMark(stream[last], "!") THEN <<>>
                          ELSE Concat(stream, first, last)
                    /\ \A i \in 1..Len(telegram_buffer) :
                          telegram_buffer[i] = "/"
                              => i <= Len(stream[first])
    /\ \A n \in 1..Len(emitted) :
          LET last == emitted[n].at
              first == StartOf(last)
              telegram == emitted[n].telegram
          IN  /\ telegram = Concat(stream, first, last)
              /\ \A i \in 1..Len(telegram) :
                    /\ telegram[i] = "!"
                          => i > Len(telegram) - Len(stream[last])
                    /\ telegram[i] = "/" => i <= Len(stream[first])

\* a telegram of two chunks was passed to the parser and processed, and a
\* new frame has begun in the accumulation string
C18_Witness ==
    /\ Len(stream) = 3
    /\ Len(emitted) = 1
    /\ emitted[1].at = 2
    /\ StartOf(2) = 1
    /\ HasMark(stream[1], "/")
    /\ pc = "read"
    /\ telegram_buffer = <<"/", "x">>

=============================================================================
